---------------------------- MODULE Spec2Model ----------------------------
(***************************************************************************)
(* Model of the audio recording engine of the DSA learning app             *)
(* (src-tauri/src/commands/audio.rs): the capture thread that owns the     *)
(* cpal stream, the real-time input callback, and the lazy start of the    *)
(* thread from the Tauri command handlers.                                  *)
(***************************************************************************)
EXTENDS Integers, Sequences, FiniteSets, TLC

\* ------------------------------------------------------------------ bounds
MaxCmds == 3        \* commands sent to the capture thread in one run
MaxBufs == 1        \* invocations of the input callback in one run
MaxRecCmds == 4     \* the same two bounds for the runs of one recording
MaxRecBufs == 3
MaxSessions == 2    \* streams opened successfully in one run
BufLen == 2         \* samples in one callback buffer
NumCallers == 3     \* command handlers racing in ensure_audio_thread_started

\* ------------------------------------------------------- values and helpers
DevNames == {"mic", "usb"}
NoDev == "none"          \* Option<cpal::Device>::None
NoName == ""             \* String::new()
None == 0                \* Option::None of a session handle

NoCmd == [id |-> 0, op |-> "none", dev |-> NoName]

\* AudioCommand, without the fields start_recording_stream ignores
Cmd(op, dev) == [op |-> op, dev |-> dev]
RecCommands == {Cmd(op, NoName) : op \in {"Start", "Stop", "Pause", "Resume"}}
Commands == RecCommands \cup {Cmd("Refresh", NoName)}
                \cup {Cmd("Switch", d) : d \in DevNames}

\* what the platform can answer to host.input_devices() / default_input_device()
Enumerations ==
    {[ok |-> FALSE, devs |-> {}, def |-> NoDev]} \cup
    {[ok |-> TRUE, devs |-> ds, def |-> d] :
        ds \in SUBSET DevNames, d \in DevNames \cup {NoDev}}

\* a platform whose devices stay plugged in
StablePlatform == {[ok |-> TRUE, devs |-> DevNames, def |-> "mic"]}

\* channels of a device's default input config
InputChannels(dev) == IF dev = "usb" THEN 2 ELSE 1

\* results of start_recording_stream: Ok, or Err from the device (its input
\* config, building or starting the stream) or from creating the file
StartOutcomes == {"ok", "device", "file"}

VARIABLES
    queue,                \* the mpsc channel of AudioCommand
    nEnq,                 \* commands sent so far (their ids are 1..nEnq)
    nLost,                \* sends that failed because the receiver is gone
    pc,                   \* position of audio_recording_thread
    cur,                  \* the command being processed
    e1,                   \* error of the first start attempt
    local,                \* session handle held in a local of the thread
    current_stream,
    current_writer,
    current_state,
    available_devices,
    current_device,
    current_device_name,
    sess,                 \* every session object created by start_recording_stream
    statuses,             \* the command of every AudioResponse sent, in order
    last,                 \* the last AudioResponse sent
    nBufs,                \* callback invocations so far
    hpc,                  \* position of each command handler
    hkind,                \* which handler each caller runs
    hsender,              \* the Sender each handler obtained
    hnew,                 \* the thread a handler spawned
    audio_thread_sender,  \* AppState.audio_thread_sender
    recording_lock,       \* holder of AppState.recording_state's mutex
    nThreads,             \* capture threads spawned
    sentTo,               \* the thread each handler's command went to
    config,               \* the device's default input config
    requested,            \* the sample_rate and channels of StartRecording
    data,                 \* one frame handed to the input callback
    wav_spec,             \* the WavSpec the writer was created with, if any
    written,              \* what the callback wrote for the frame, if called
    legacy_written,       \* what AudioRecorder's callback wrote, if called
    now,                  \* Utc::now(), in seconds
    current_timer,        \* AppState.current_timer: the TimerSession, if any
    timer_state,          \* the last TimerState returned, and when
    run_secs,             \* seconds the timer has run unpaused since its start
    recording_session,    \* AppState.recording_state: the RecordingSession, if any
    stopping,             \* stop_recording between its send and its save
    saved,                \* the rows of save_recording
    data_len,             \* samples in the buffer handed to the input callback
    pos,                  \* the callback's position in the buffer
    n_written,            \* samples the callback has written for the buffer
    hret,                 \* what each command handler returned
    poisoned              \* recording_state's mutex was poisoned by a panic

ctl == <<current_stream, current_writer, current_state>>
devsel == <<available_devices, current_device, current_device_name>>
thr == <<pc, cur, e1, local>>
chan == <<queue, nEnq, nLost>>
handlers == <<hpc, hkind, hsender, hnew, audio_thread_sender, recording_lock,
              nThreads, sentTo>>
resp == <<statuses, last>>
engine == <<chan, thr, ctl, devsel, sess, resp, nBufs>>
pcm == <<config, requested, data, wav_spec, written, legacy_written>>
timers == <<now, current_timer, timer_state, run_secs>>
saving == <<recording_session, stopping, saved>>
loop == <<data_len, pos, n_written>>
calls == <<hret, poisoned>>
extra == <<loop, calls>>
rest == <<pcm, timers, saving, extra>>
vars == <<engine, handlers, rest>>

Callers == 1..NumCallers

InitEngine ==
    /\ queue = <<>>
    /\ nEnq = 0
    /\ nLost = 0
    /\ pc = "init"
    /\ cur = NoCmd
    /\ e1 = "none"
    /\ local = None
    /\ current_stream = None
    /\ current_writer = None
    /\ current_state = None
    /\ available_devices = {}
    /\ current_device = NoDev
    /\ current_device_name = NoName
    /\ sess = <<>>
    /\ statuses = <<>>
    /\ last = [st |-> "none", info |-> <<>>]
    /\ nBufs = 0
    /\ hpc = [c \in Callers |-> "idle"]
    /\ hkind = [c \in Callers |-> "none"]
    /\ hsender = [c \in Callers |-> None]
    /\ hnew = [c \in Callers |-> None]
    /\ audio_thread_sender = None
    /\ recording_lock = None
    /\ nThreads = 0
    /\ sentTo = [c \in Callers |-> None]

\* no device config read and no frame delivered
NoPcm ==
    /\ config = "none"
    /\ requested = "none"
    /\ data = <<>>
    /\ wav_spec = <<>>
    /\ written = <<>>
    /\ legacy_written = <<>>

\* no timer session, no recording session, an empty recordings table
NoSessions ==
    /\ now = 0
    /\ current_timer = <<>>
    /\ timer_state = <<>>
    /\ run_secs = 0
    /\ recording_session = <<>>
    /\ stopping = <<>>
    /\ saved = <<>>

\* no buffer handed over, no handler returned
NoExtra ==
    /\ data_len = 0
    /\ pos = 0
    /\ n_written = 0
    /\ hret = [c \in Callers |-> "none"]
    /\ poisoned = FALSE

Init == InitEngine /\ NoPcm /\ NoSessions /\ NoExtra


\* ------------------------------------------------------ device enumeration
\* refresh_available_devices: the registry is cleared first, so a failed
\* enumeration leaves it empty; the selection is kept while its name is
\* still listed and otherwise replaced by the platform default.
refresh_available_devices(en, avail, dev, name) ==
    IF ~en.ok
    THEN [ok |-> FALSE, avail |-> {}, dev |-> dev, name |-> name]
    ELSE LET default_device_name == IF en.def \in en.devs THEN en.def ELSE NoName
         IN  IF dev = NoDev
             THEN IF en.def # NoDev
                  THEN [ok |-> TRUE, avail |-> en.devs, dev |-> en.def,
                        name |-> default_device_name]
                  ELSE [ok |-> FALSE, avail |-> en.devs, dev |-> dev, name |-> name]
             ELSE IF name \notin en.devs
                  THEN IF en.def # NoDev
                       THEN [ok |-> TRUE, avail |-> en.devs, dev |-> en.def,
                             name |-> default_device_name]
                       ELSE [ok |-> FALSE, avail |-> en.devs, dev |-> dev,
                             name |-> name]
                  ELSE [ok |-> TRUE, avail |-> en.devs, dev |-> dev, name |-> name]

\* ----------------------------------------------------------- the sessions
\* What start_recording_stream returns on success: a playing stream, the
\* writer behind Arc<Mutex<Option<..>>> and the state cell, set to Recording.
\* The last six fields are history. ovl: the running invocation overlaps a
\* command; race: some invocation did; due: the samples of the buffers handed
\* over, from first to last instruction of the closure, between two commands
\* while Recording (kept until the first race); phase: 0, then 1 once paused,
\* 2 once resumed; atPause: the samples in the file at the last pause;
\* skipped: some invocation returned because a try_lock failed.
NewSession(dev) ==
    [stream |-> "live", writer |-> "open", samples |-> 0, st |-> "Recording",
     stLock |-> "free", wLock |-> "free", cb |-> "idle", orphan |-> FALSE,
     dev |-> dev, ch |-> InputChannels(dev),
     ovl |-> FALSE, race |-> FALSE, due |-> 0, phase |-> 0, atPause |-> 0,
     skipped |-> FALSE]

Sessions == 1..Len(sess)

\* samples one callback invocation writes: one per sample for mono input,
\* one per complete frame otherwise
SamplesPerBuffer(len, ch) == IF ch <= 1 THEN len ELSE len \div ch

\* response_sender.send(..) as the last statement of a match arm
Reply(st, info) ==
    /\ statuses' = Append(statuses, cur.id)
    /\ last' = [st |-> st, info |-> info]
    /\ pc' = "recv"
    /\ cur' = NoCmd
    /\ e1' = "none"
    /\ local' = None

\* a receiver that hands out the newest command first
RecvNewest(q) == [cmd |-> q[Len(q)], rest |-> SubSeq(q, 1, Len(q) - 1)]

\* command_receiver.recv(): the oldest command of the channel
Recv(q) == [cmd |-> Head(q), rest |-> Tail(q)]

Entry(op) ==
    CASE op = "Start" -> "start1"
      [] op = "Stop" -> "stop_drop"
      [] op = "Pause" -> "pause_lock"
      [] op = "Resume" -> "resume_lock"
      [] op = "Refresh" -> "refresh"
      [] op = "Switch" -> "switch"

\* ------------------------------------------------------ the command senders
\* audio_sender.send(cmd) of a command handler
Enqueue(c, max) ==
    /\ nEnq < max
    /\ pc # "exited"
    /\ nEnq' = nEnq + 1
    /\ queue' = Append(queue, [id |-> nEnq + 1, op |-> c.op, dev |-> c.dev])
    /\ UNCHANGED <<nLost, thr, ctl, devsel, sess, resp, nBufs, handlers, rest>>

\* send on a channel whose Receiver was dropped with the thread: Err
SendToExited(max) ==
    /\ nEnq < max
    /\ pc = "exited"
    /\ nEnq' = nEnq + 1
    /\ nLost' = nLost + 1
    /\ UNCHANGED <<queue, thr, ctl, devsel, sess, resp, nBufs, handlers, rest>>

\* ------------------------------------------------------- the capture thread
\* lines 83-93: the initial enumeration; on failure the thread reports and returns
ThreadInit(platform) ==
    /\ pc = "init"
    /\ \E en \in platform :
         LET r == refresh_available_devices(en, available_devices, current_device,
                                            current_device_name)
         IN  /\ available_devices' = r.avail
             /\ current_device' = r.dev
             /\ current_device_name' = r.name
             /\ IF r.ok
                THEN /\ pc' = "recv"
                     /\ UNCHANGED <<resp, queue, nLost>>
                ELSE /\ pc' = "exited"
                     /\ statuses' = Append(statuses, 0)
                     /\ last' = [st |-> "Error", info |-> <<"init">>]
                     /\ queue' = <<>>
                     /\ nLost' = nLost + Len(queue)
    /\ UNCHANGED <<nEnq, cur, e1, local, ctl, sess, nBufs, handlers, rest>>

\* line 95: take the next command; a callback that is running now overlaps it
ThreadRecv ==
    /\ pc = "recv"
    /\ queue # <<>>
    /\ cur' = Recv(queue).cmd
    /\ queue' = Recv(queue).rest
    /\ pc' = Entry(Recv(queue).cmd.op)
    /\ sess' = [s \in Sessions |->
                  IF sess[s].cb # "idle" THEN [sess[s] EXCEPT !.ovl = TRUE]
                  ELSE sess[s]]
    /\ UNCHANGED <<nEnq, nLost, e1, local, ctl, devsel, resp, nBufs, handlers, rest>>


\* start_recording_stream(device, ..): any failure leaves no session object
\* behind (the writer it may have created is a local that is dropped); on
\* success a new session exists while the thread's fields are still untouched.
start_recording_stream(out) ==
    IF out = "ok"
    THEN /\ Len(sess) < MaxSessions
         /\ sess' = Append(sess, NewSession(current_device))
         /\ local' = Len(sess) + 1
         /\ pc' = "start_set_stream"
         /\ UNCHANGED <<cur, e1, resp>>
    ELSE UNCHANGED sess

\* lines 98-99 and 106, 129-131: the first attempt
StartFirst(outcomes) ==
    /\ pc = "start1"
    /\ IF current_device = NoDev
       THEN /\ Reply("Error", <<"no_device">>)
            /\ UNCHANGED sess
       ELSE \E out \in outcomes :
                /\ start_recording_stream(out)
                /\ IF out = "ok"
                   THEN TRUE
                   ELSE /\ e1' = out
                        /\ pc' = "start_refresh"
                        /\ UNCHANGED <<cur, local, resp>>
    /\ UNCHANGED <<chan, ctl, devsel, nBufs, handlers, rest>>

\* lines 108-109, 121-126: refresh once after the failure
StartRefresh(platform) ==
    /\ pc = "start_refresh"
    /\ \E en \in platform :
         LET r == refresh_available_devices(en, available_devices, current_device,
                                            current_device_name)
         IN  /\ available_devices' = r.avail
             /\ current_device' = r.dev
             /\ current_device_name' = r.name
             /\ IF r.ok
                THEN IF r.dev # NoDev
                     THEN /\ pc' = "start2"
                          /\ UNCHANGED <<cur, e1, local, resp>>
                     ELSE Reply("Error", <<"no_device_after_refresh", e1>>)
                ELSE Reply("Error", <<"start_failed", e1>>)
    /\ UNCHANGED <<chan, ctl, sess, nBufs, handlers, rest>>

\* a retry whose Error names the retry's failure only
StartRetryOneReason(outcomes) ==
    /\ pc = "start2"
    /\ \E out \in outcomes :
         /\ start_recording_stream(out)
         /\ IF out = "ok"
            THEN TRUE
            ELSE Reply("Error", <<"start_failed", out>>)
    /\ UNCHANGED <<chan, ctl, devsel, nBufs, handlers, rest>>

\* lines 110, 117-119: the retry
StartRetry(outcomes) ==
    /\ pc = "start2"
    /\ \E out \in outcomes :
         /\ start_recording_stream(out)
         /\ IF out = "ok"
            THEN TRUE
            ELSE Reply("Error", <<"start_failed", e1, out>>)
    /\ UNCHANGED <<chan, ctl, devsel, nBufs, handlers, rest>>

\* the Arc of a writer is released by the thread: the WavWriter inside is
\* discarded (never passed to finalize) once no running callback holds it
ReleaseWriter(ss, w) ==
    IF w = None \/ ss[w].writer # "open" THEN ss
    ELSE IF ss[w].cb = "idle" THEN [ss EXCEPT ![w].writer = "discarded"]
    ELSE [ss EXCEPT ![w].orphan = TRUE]

\* lines 101 / 112: current_stream = Some(stream); the stream it held is dropped
StartSetStream ==
    /\ pc = "start_set_stream"
    /\ sess' = IF current_stream = None THEN sess
               ELSE [sess EXCEPT ![current_stream].stream = "dropped"]
    /\ current_stream' = local
    /\ pc' = "start_set_writer"
    /\ UNCHANGED <<chan, cur, e1, local, current_writer, current_state, devsel,
                   resp, nBufs, handlers, rest>>

\* lines 102 / 113: current_writer = Some(writer); the Arc it held is dropped
StartSetWriter ==
    /\ pc = "start_set_writer"
    /\ sess' = ReleaseWriter(sess, current_writer)
    /\ current_writer' = local
    /\ pc' = "start_set_state"
    /\ UNCHANGED <<chan, cur, e1, local, current_stream, current_state, devsel,
                   resp, nBufs, handlers, rest>>

\* lines 103-104 / 114-115
StartSetState ==
    /\ pc = "start_set_state"
    /\ current_state' = local
    /\ Reply("Started", <<>>)
    /\ UNCHANGED <<chan, current_stream, current_writer, devsel, sess, nBufs,
                   handlers, rest>>

\* a Stop that lets go of the stream without dropping it
StopKeepsStream ==
    /\ pc = "stop_drop"
    /\ current_stream' = None
    /\ pc' = "stop_take"
    /\ UNCHANGED <<chan, cur, e1, local, current_writer, current_state, devsel,
                   sess, resp, nBufs, handlers, rest>>

\* lines 134-136: current_stream.take() and drop
StopDropStream ==
    /\ pc = "stop_drop"
    /\ sess' = IF current_stream = None THEN sess
               ELSE [sess EXCEPT ![current_stream].stream = "dropped"]
    /\ current_stream' = None
    /\ pc' = "stop_take"
    /\ UNCHANGED <<chan, cur, e1, local, current_writer, current_state, devsel,
                   resp, nBufs, handlers, rest>>

\* a Stop that leaves the writer where it is
StopLeavesWriter ==
    /\ pc = "stop_take"
    /\ pc' = "stop_clear"
    /\ UNCHANGED <<chan, cur, e1, local, ctl, devsel, sess, resp, nBufs, handlers,
                   rest>>

\* line 139: current_writer.take()
StopTakeWriter ==
    /\ pc = "stop_take"
    /\ local' = current_writer
    /\ current_writer' = None
    /\ pc' = IF current_writer = None THEN "stop_clear" ELSE "stop_lock"
    /\ UNCHANGED <<chan, cur, e1, current_stream, current_state, devsel, sess,
                   resp, nBufs, handlers, rest>>

\* line 140: writer_arc.lock() waits for a callback that holds the writer
StopLockWriter ==
    /\ pc = "stop_lock"
    /\ sess[local].wLock = "free"
    /\ sess' = [sess EXCEPT ![local].wLock = "thread"]
    /\ pc' = "stop_finalize"
    /\ UNCHANGED <<chan, cur, e1, local, ctl, devsel, resp, nBufs, handlers, rest>>

\* lines 141-145: take the writer out of the Option, finalize it, unlock
StopFinalize ==
    /\ pc = "stop_finalize"
    /\ sess' = [sess EXCEPT ![local].wLock = "free",
                            ![local].writer = IF @ = "open" THEN "finalized" ELSE @]
    /\ pc' = "stop_clear"
    /\ UNCHANGED <<chan, cur, e1, local, ctl, devsel, resp, nBufs, handlers, rest>>

\* a Stop that clears the device selection with the session
StopClearForgetsDevice ==
    /\ pc = "stop_clear"
    /\ current_state' = None
    /\ current_device' = NoDev
    /\ current_device_name' = NoName
    /\ Reply("Stopped", <<>>)
    /\ UNCHANGED <<chan, current_stream, current_writer, available_devices, sess,
                   nBufs, handlers, rest>>

\* a Stop that forgets its response
StopClearSilent ==
    /\ pc = "stop_clear"
    /\ current_state' = None
    /\ pc' = "recv"
    /\ cur' = NoCmd
    /\ e1' = "none"
    /\ local' = None
    /\ UNCHANGED <<chan, current_stream, current_writer, devsel, sess, resp, nBufs,
                   handlers, rest>>

\* lines 147-148
StopClear ==
    /\ pc = "stop_clear"
    /\ current_state' = None
    /\ Reply("Stopped", <<>>)
    /\ UNCHANGED <<chan, current_stream, current_writer, devsel, sess, nBufs,
                   handlers, rest>>

\* lines 151-152 / 159-160: state_arc.lock() waits for a callback that holds it
LockState(next, st) ==
    IF current_state = None
    THEN /\ Reply(st, <<>>)
         /\ UNCHANGED sess
    ELSE /\ sess[current_state].stLock = "free"
         /\ sess' = [sess EXCEPT ![current_state].stLock = "thread"]
         /\ pc' = next
         /\ UNCHANGED <<cur, e1, local, resp>>

PauseLock ==
    /\ pc = "pause_lock"
    /\ LockState("pause_set", "Paused")
    /\ UNCHANGED <<chan, ctl, devsel, nBufs, handlers, rest>>

\* a Pause that stops the stream instead of leaving it running
PauseSetStopsStream ==
    /\ pc = "pause_set"
    /\ sess' = [sess EXCEPT ![current_state].st = "Paused",
                            ![current_state].stLock = "free",
                            ![current_state].phase = 1,
                            ![current_state].atPause = sess[current_state].samples,
                            ![current_state].stream = "dropped"]
    /\ Reply("Paused", <<>>)
    /\ UNCHANGED <<chan, ctl, devsel, nBufs, handlers, rest>>

\* lines 153-156
PauseSet ==
    /\ pc = "pause_set"
    /\ sess' = [sess EXCEPT ![current_state].st = "Paused",
                            ![current_state].stLock = "free",
                            ![current_state].phase = 1,
                            ![current_state].atPause = sess[current_state].samples]
    /\ Reply("Paused", <<>>)
    /\ UNCHANGED <<chan, ctl, devsel, nBufs, handlers, rest>>

ResumeLock ==
    /\ pc = "resume_lock"
    /\ LockState("resume_set", "Resumed")
    /\ UNCHANGED <<chan, ctl, devsel, nBufs, handlers, rest>>

\* lines 161-164
ResumeSet ==
    /\ pc = "resume_set"
    /\ sess' = [sess EXCEPT ![current_state].st = "Recording",
                            ![current_state].stLock = "free",
                            ![current_state].phase = IF @ = 1 THEN 2 ELSE @]
    /\ Reply("Resumed", <<>>)
    /\ UNCHANGED <<chan, ctl, devsel, nBufs, handlers, rest>>

\* a refresh that reports a lost selection as an error
RefreshDevicesStrict(platform) ==
    /\ pc = "refresh"
    /\ \E en \in platform :
         LET r == refresh_available_devices(en, available_devices, current_device,
                                            current_device_name)
         IN  /\ available_devices' = r.avail
             /\ current_device' = r.dev
             /\ current_device_name' = r.name
             /\ IF r.ok /\ r.dev = current_device
                THEN Reply("DevicesRefreshed", <<r.name>>)
                ELSE Reply("Error", <<"refresh_failed">>)
    /\ UNCHANGED <<chan, ctl, sess, nBufs, handlers, rest>>

\* lines 166-173
RefreshDevices(platform) ==
    /\ pc = "refresh"
    /\ \E en \in platform :
         LET r == refresh_available_devices(en, available_devices, current_device,
                                            current_device_name)
         IN  /\ available_devices' = r.avail
             /\ current_device' = r.dev
             /\ current_device_name' = r.name
             /\ IF r.ok THEN Reply("DevicesRefreshed", <<r.name>>)
                ELSE Reply("Error", <<"refresh_failed">>)
    /\ UNCHANGED <<chan, ctl, sess, nBufs, handlers, rest>>

\* a switch that drops the selection when the name is unknown
SwitchDeviceForgets ==
    /\ pc = "switch"
    /\ IF cur.dev \in available_devices
       THEN /\ current_device' = cur.dev
            /\ current_device_name' = cur.dev
            /\ Reply("DeviceSwitched", <<cur.dev>>)
       ELSE /\ current_device' = NoDev
            /\ current_device_name' = NoName
            /\ Reply("Error", <<"not_found", cur.dev>>)
    /\ UNCHANGED <<chan, ctl, available_devices, sess, nBufs, handlers, rest>>

\* a switch that moves the running stream to the new device
SwitchDeviceHotSwap ==
    /\ pc = "switch"
    /\ IF cur.dev \in available_devices
       THEN /\ current_device' = cur.dev
            /\ current_device_name' = cur.dev
            /\ sess' = IF current_stream = None THEN sess
                       ELSE [sess EXCEPT ![current_stream].dev = cur.dev]
            /\ Reply("DeviceSwitched", <<cur.dev>>)
       ELSE /\ UNCHANGED <<current_device, current_device_name, sess>>
            /\ Reply("Error", <<"not_found", cur.dev>>)
    /\ UNCHANGED <<chan, ctl, available_devices, nBufs, handlers, rest>>

\* lines 174-182
SwitchDevice ==
    /\ pc = "switch"
    /\ IF cur.dev \in available_devices
       THEN /\ current_device' = cur.dev
            /\ current_device_name' = cur.dev
            /\ Reply("DeviceSwitched", <<cur.dev>>)
       ELSE /\ UNCHANGED <<current_device, current_device_name>>
            /\ Reply("Error", <<"not_found", cur.dev>>)
    /\ UNCHANGED <<chan, ctl, available_devices, sess, nBufs, handlers, rest>>


\* ------------------------------------------------------- the input callback
\* The thread is between two commands (blocked in recv).
Quiet == pc = "recv"

\* history: the samples due from the invocation that ends
Counted(r) ==
    IF r.ovl \/ r.race THEN [r EXCEPT !.race = TRUE, !.due = 0]
    ELSE IF r.st = "Recording"
         THEN [r EXCEPT !.due = @ + SamplesPerBuffer(BufLen, r.ch)]
         ELSE r

\* the closure returns: its guards are dropped; a writer whose Arc the thread
\* has released goes with the closure's stream
Return(r) ==
    [Counted(r) EXCEPT
        !.cb = "idle", !.ovl = FALSE,
        !.stLock = IF @ = "cb" THEN "free" ELSE @,
        !.wLock = IF @ = "cb" THEN "free" ELSE @,
        !.writer = IF r.orphan /\ @ = "open" THEN "discarded" ELSE @]

\* a closure that does not look at the state it locked
CbInvokeIgnoringPause(s, max) ==
    /\ sess[s].stream = "live"
    /\ sess[s].cb = "idle"
    /\ nBufs < max
    /\ nBufs' = nBufs + 1
    /\ LET r == [sess[s] EXCEPT !.ovl = ~Quiet]
       IN  sess' = [sess EXCEPT ![s] =
                IF r.stLock = "thread" THEN Return([r EXCEPT !.skipped = TRUE])
                ELSE [r EXCEPT !.stLock = "cb", !.cb = "have_state"]]
    /\ UNCHANGED <<chan, thr, ctl, devsel, resp, handlers, rest>>

\* lines 315-318 (f32), 354-357 (i16), 389-392 (u16): the audio layer calls the
\* closure of a playing stream; state.try_lock() and the test for Recording
CbInvoke(s, max) ==
    /\ sess[s].stream = "live"
    /\ sess[s].cb = "idle"
    /\ nBufs < max
    /\ nBufs' = nBufs + 1
    /\ LET r == [sess[s] EXCEPT !.ovl = ~Quiet]
       IN  sess' = [sess EXCEPT ![s] =
                IF r.stLock = "thread" THEN Return([r EXCEPT !.skipped = TRUE])
                ELSE IF r.st # "Recording" THEN Return(r)
                ELSE [r EXCEPT !.stLock = "cb", !.cb = "have_state"]]
    /\ UNCHANGED <<chan, thr, ctl, devsel, resp, handlers, rest>>

\* a closure that takes the writer with lock() instead of try_lock()
CbLockWriter(s) ==
    /\ sess[s].cb = "have_state"
    /\ sess[s].wLock # "thread"
    /\ sess' = [sess EXCEPT ![s] =
            IF @.writer # "open" THEN Return(@)
            ELSE [@ EXCEPT !.wLock = "cb", !.cb = "writing"]]
    /\ UNCHANGED <<chan, thr, ctl, devsel, resp, nBufs, handlers, rest>>

\* lines 319-320, 358-359, 393-394: writer.try_lock() and the test for Some
CbTryWriter(s) ==
    /\ sess[s].cb = "have_state"
    /\ sess' = [sess EXCEPT ![s] =
            IF @.wLock = "thread" THEN Return([@ EXCEPT !.skipped = TRUE])
            ELSE IF @.writer # "open" THEN Return(@)
            ELSE [@ EXCEPT !.wLock = "cb", !.cb = "writing"]]
    /\ UNCHANGED <<chan, thr, ctl, devsel, resp, nBufs, handlers, rest>>

\* lines 321-337, 360-373, 395-411: the loop over the buffer, then return
CbWrite(s) ==
    /\ sess[s].cb = "writing"
    /\ sess' = [sess EXCEPT ![s] =
            Return([@ EXCEPT !.samples = @ + SamplesPerBuffer(BufLen, sess[s].ch)])]
    /\ UNCHANGED <<chan, thr, ctl, devsel, resp, nBufs, handlers, rest>>

\* ------------------------------------------------------------ specification
\* the handlers every run needs: start, stop, pause and resume
RecThreadStep(platform, outcomes) ==
    \/ ThreadInit(platform) \/ ThreadRecv
    \/ StartFirst(outcomes) \/ StartRefresh(platform) \/ StartRetry(outcomes)
    \/ StartSetStream \/ StartSetWriter \/ StartSetState
    \/ StopDropStream \/ StopTakeWriter \/ StopLockWriter \/ StopFinalize
    \/ StopClear
    \/ PauseLock \/ PauseSet \/ ResumeLock \/ ResumeSet

ThreadStep(platform, outcomes) ==
    \/ RecThreadStep(platform, outcomes)
    \/ RefreshDevices(platform) \/ SwitchDevice

\* a running invocation goes on to its return
CallbackReturns == \E s \in Sessions : CbTryWriter(s) \/ CbWrite(s)

CallbackStep(max) == (\E s \in Sessions : CbInvoke(s, max)) \/ CallbackReturns

\* The engine under every command and every answer of the platform.
Next ==
    \/ ThreadStep(Enumerations, StartOutcomes)
    \/ CallbackStep(MaxBufs)
    \/ \E c \in Commands : Enqueue(c, MaxCmds)
    \/ SendToExited(MaxCmds)

Spec == Init /\ [][Next]_vars

\* One recording after another on a platform whose devices stay plugged in:
\* longer runs, with more buffers, of the part of the engine that records.
RecNext ==
    \/ RecThreadStep(StablePlatform, StartOutcomes)
    \/ CallbackStep(MaxRecBufs)
    \/ \E c \in RecCommands : Enqueue(c, MaxRecCmds)

SpecRec == Init /\ [][RecNext]_vars

\* ------------------------------------------- starting the thread on first use
HandlerKinds == {"start_recording", "get_audio_devices", "switch_audio_device"}

\* a command handler is called; start_recording locks recording_state and
\* stores its session before it asks for the thread (lines 459-463)
HandlerCall(c, k) ==
    /\ hpc[c] = "idle"
    /\ IF k = "start_recording"
       THEN /\ recording_lock = None
            /\ recording_lock' = c
       ELSE UNCHANGED recording_lock
    /\ hkind' = [hkind EXCEPT ![c] = k]
    /\ hpc' = [hpc EXCEPT ![c] = "ensure"]
    /\ UNCHANGED <<engine, rest, hsender, hnew, audio_thread_sender, nThreads, sentTo>>

\* ensure_audio_thread_started, lines 48-55: lock, look, unlock
EnsureCheck(c) ==
    /\ hpc[c] = "ensure"
    /\ IF audio_thread_sender # None
       THEN /\ hsender' = [hsender EXCEPT ![c] = audio_thread_sender]
            /\ hpc' = [hpc EXCEPT ![c] = "send"]
       ELSE /\ hpc' = [hpc EXCEPT ![c] = "spawn"]
            /\ UNCHANGED hsender
    /\ UNCHANGED <<engine, rest, hkind, hnew, audio_thread_sender, recording_lock,
                   nThreads, sentTo>>

\* lines 57-63: a new channel and a new thread that owns its receiver
EnsureSpawn(c) ==
    /\ hpc[c] = "spawn"
    /\ nThreads' = nThreads + 1
    /\ hnew' = [hnew EXCEPT ![c] = nThreads + 1]
    /\ hpc' = [hpc EXCEPT ![c] = "store"]
    /\ UNCHANGED <<engine, rest, hkind, hsender, audio_thread_sender, recording_lock,
                   sentTo>>

\* lines 66-69: lock again, store the new sender, return it
EnsureStore(c) ==
    /\ hpc[c] = "store"
    /\ audio_thread_sender' = hnew[c]
    /\ hsender' = [hsender EXCEPT ![c] = hnew[c]]
    /\ hpc' = [hpc EXCEPT ![c] = "send"]
    /\ UNCHANGED <<engine, rest, hkind, hnew, recording_lock, nThreads, sentTo>>

\* lines 467-479, 667-693, 701-704: send the command on the sender obtained
\* and return, which unlocks recording_state
HandlerSend(c) ==
    /\ hpc[c] = "send"
    /\ sentTo' = [sentTo EXCEPT ![c] = hsender[c]]
    /\ hpc' = [hpc EXCEPT ![c] = "done"]
    /\ recording_lock' = IF recording_lock = c THEN None ELSE recording_lock
    /\ UNCHANGED <<engine, rest, hkind, hsender, hnew, audio_thread_sender, nThreads>>

\* The first calls of the handlers that start the thread, each on its own
\* runtime worker.
EnsureNext ==
    \E c \in Callers :
        \/ \E k \in HandlerKinds : HandlerCall(c, k)
        \/ EnsureCheck(c)
        \/ EnsureSpawn(c)
        \/ EnsureStore(c)
        \/ HandlerSend(c)

SpecEnsure == Init /\ [][EnsureNext]_vars


\* ------------------------------------------------------------------ claims
Busy == pc \notin {"init", "recv", "exited"}

Idle == current_stream = None /\ current_writer = None /\ current_state = None

StopPcs == {"stop_drop", "stop_take", "stop_lock", "stop_finalize", "stop_clear"}

\* the commands taken from the channel so far
Taken == nEnq - nLost - Len(queue)

\* C1: the capture thread takes the commands in the order they were sent
\* and one at a time: the responses answer commands 1, 2, 3, .. in this
\* order, the command being processed is the oldest unanswered one, the
\* channel holds the later ones in order, and every step that changes the
\* controller's fields, the device selection or a session's pause state, or
\* that sends a response, is taken for that oldest unanswered command, so a
\* Resume takes effect only after the Start before it was answered.
C1_Order ==
    /\ pc # "exited" => \A i \in 1..Len(statuses) : statuses[i] = i
    /\ Busy => cur.id = Len(statuses) + 1
    /\ ~Busy => cur = NoCmd
    /\ \A i \in 1..Len(queue) :
          queue[i].id = Len(statuses) + (IF Busy THEN 1 ELSE 0) + i

C1_Effect ==
    (\/ ctl' # ctl
     \/ devsel' # devsel
     \/ statuses' # statuses
     \/ \E s \in Sessions : sess'[s].st # sess[s].st)
    => \/ pc = "init"
       \/ /\ Busy
          /\ cur.id = Len(statuses) + 1
          /\ statuses' # statuses => statuses' = Append(statuses, cur.id)

C1_Fifo == [](C1_Order) /\ [][C1_Effect]_vars

\* C1 witness: a Resume about to take effect on the session a completed
\* Start opened, while a later command waits in the channel
C1_Witness ==
    /\ pc = "resume_set"
    /\ cur.id = 2
    /\ statuses = <<1>>
    /\ last.st = "Started"
    /\ Len(queue) = 1


\* steps a handler still has to take before it is back in recv
Rank(p) ==
    CASE p \in {"start1"} -> 6
      [] p \in {"start_refresh", "stop_drop"} -> 5
      [] p \in {"start2", "stop_take"} -> 4
      [] p \in {"start_set_stream", "stop_lock"} -> 3
      [] p \in {"start_set_writer", "stop_finalize", "pause_lock", "resume_lock"} -> 2
      [] p \in {"start_set_state", "stop_clear", "pause_set", "resume_set",
                "refresh", "switch"} -> 1
      [] OTHER -> 0

\* the thread waits for a lock that a running callback holds
WaitsForCallback ==
    \/ /\ pc \in {"pause_lock", "resume_lock"}
       /\ current_state # None
       /\ sess[current_state].stLock = "cb"
       /\ sess[current_state].cb # "idle"
    \/ /\ pc = "stop_lock"
       /\ sess[local].wLock = "cb"
       /\ sess[local].cb = "writing"

\* C2: every command taken from the channel is answered by exactly one
\* response: all the commands taken but the one being processed have theirs,
\* no response is sent twice or for another command, and the one being
\* processed gets its response within six steps of the thread, none of which
\* can be stuck except to wait for a callback that is about to return.
C2_Count ==
    /\ pc # "exited" => Len(statuses) + (IF Busy THEN 1 ELSE 0) = Taken
    /\ pc = "exited" => Taken = 0 /\ statuses = <<0>>
    /\ \A i, j \in 1..Len(statuses) : statuses[i] = statuses[j] => i = j
    /\ Busy => \/ ENABLED ThreadStep(Enumerations, StartOutcomes)
               \/ /\ WaitsForCallback
                  /\ ENABLED CallbackReturns

C2_Progress ==
    pc' # pc =>
        /\ Busy => Rank(pc') < Rank(pc)
        /\ (Busy /\ ~Busy') => /\ statuses' = Append(statuses, cur.id)
                               /\ last'.st \in {"Started", "Stopped", "Paused",
                                      "Resumed", "DevicesRefreshed",
                                      "DeviceSwitched", "Error"}
        /\ (Busy /\ Busy') => statuses' = statuses

C2_OneStatus == [](C2_Count) /\ [][C2_Progress]_vars

\* C2 witness: three commands taken and three responses sent, the last an
\* Error, after the thread had to wait for the callback
C2_Witness ==
    /\ pc = "recv"
    /\ nEnq = 3
    /\ queue = <<>>
    /\ statuses = <<1, 2, 3>>
    /\ last.st = "Error"
    /\ \E s \in Sessions : sess[s].race


\* C3: whatever the interleaving of the first calls of the handlers, one
\* capture thread is spawned at most, and the sender a handler obtained, and
\* the channel its command went to, is the one stored in AppState.
C3_OneThread ==
    /\ nThreads <= 1
    /\ \A c \in Callers :
          /\ hsender[c] # None => hsender[c] = audio_thread_sender
          /\ sentTo[c] # None => sentTo[c] = audio_thread_sender

\* C4: at every moment at most one stream is playing and at most one writer
\* is open, also while a Start is processed with a session active.
C4_OneSession ==
    /\ Cardinality({s \in Sessions : sess[s].stream = "live"}) <= 1
    /\ Cardinality({s \in Sessions : sess[s].writer = "open"}) <= 1

\* C9: the capture thread never exits for want of an input device: it stays
\* in its loop, and no command sent to it is lost.
C9_KeepsConsuming == pc # "exited" /\ nLost = 0

\* C10: a Start with a session active stops that session first: every
\* session other than the one the thread holds or is just opening or closing
\* has its stream dropped and its writer finalized, so no writer is discarded
\* unfinalized.
C10_StopThenStart ==
    \A s \in Sessions :
        s \notin {current_stream, current_writer, current_state, local}
            => sess[s].stream = "dropped" /\ sess[s].writer = "finalized"


\* C5: the file holds the samples of the buffers handed over while Recording
\* and no others: as long as no buffer arrived in the middle of a command, a
\* session's file has exactly the samples of the buffers delivered between
\* commands while its state was Recording (the N before a pause and the K
\* after the resume), and none of those delivered while it was Paused.
C5_PausedBuffersDropped ==
    \A s \in Sessions : ~sess[s].race => sess[s].samples = sess[s].due

\* C5 witness: one session, finalized by Stop after a pause and a resume, with
\* buffers written before the pause and after the resume and at least one
\* more buffer delivered that is not in the file
C5_Witness ==
    /\ Len(sess) = 1
    /\ sess[1].writer = "finalized"
    /\ ~sess[1].race
    /\ sess[1].phase = 2
    /\ sess[1].atPause >= SamplesPerBuffer(BufLen, sess[1].ch)
    /\ sess[1].samples > sess[1].atPause
    /\ nBufs * SamplesPerBuffer(BufLen, sess[1].ch) > sess[1].samples

\* C6: the callback never waits for a lock. Whenever the audio layer may call
\* it and wherever it stands, its next step can be taken, whoever holds the
\* locks; it holds a lock only while it runs; when the lock it tries is held
\* by the capture thread it returns at once, leaving file and locks as
\* they are; and an invocation adds the samples of its whole buffer, holding
\* both locks, or nothing.
C6_CanStep ==
    \A s \in Sessions :
        /\ (sess[s].stream = "live" /\ sess[s].cb = "idle" /\ nBufs < MaxRecBufs)
              => ENABLED CbInvoke(s, MaxRecBufs)
        /\ sess[s].cb = "have_state" => ENABLED CbTryWriter(s)
        /\ sess[s].cb = "writing" => ENABLED CbWrite(s)
        /\ sess[s].stLock = "cb" <=> sess[s].cb \in {"have_state", "writing"}
        /\ sess[s].wLock = "cb" <=> sess[s].cb = "writing"

C6_Skip ==
    \A s \in Sessions :
        LET a == sess[s]
            b == sess'[s]
        IN  /\ (a.cb = "idle" /\ a.stLock = "thread" /\ nBufs' # nBufs /\ b # a)
                  => /\ b.cb = "idle"
                     /\ b.samples = a.samples
                     /\ b.stLock = "thread"
                     /\ b.st = a.st
            /\ (a.cb = "have_state" /\ a.wLock = "thread" /\ b.cb # a.cb)
                  => /\ b.cb = "idle"
                     /\ b.samples = a.samples
                     /\ b.wLock = "thread"
                     /\ b.stLock = "free"
            /\ b.samples # a.samples
                  => /\ b.samples = a.samples + SamplesPerBuffer(BufLen, a.ch)
                     /\ a.cb = "writing" /\ a.stLock = "cb" /\ a.wLock = "cb"
                     /\ b.cb = "idle"

C6_NeverWaits == [](C6_CanStep) /\ [][C6_Skip]_vars

\* C6 witness: an invocation has found a lock taken and returned, and the
\* file of its session is still empty
C6_Witness ==
    \E s \in Sessions :
        sess[s].skipped /\ sess[s].cb = "idle" /\ sess[s].samples = 0

\* C7: a Stop processed while the controller is Idle leaves it Idle and
\* leaves device selection and registry as they are, at each of its steps,
\* and ends with the response Stopped; so any number of Stops in a row leave
\* what one Stop leaves.
C7_Step ==
    (pc \in StopPcs /\ Idle)
        => /\ Idle'
           /\ devsel' = devsel
           /\ pc' \in StopPcs \cup {"recv"}
           /\ pc' = "recv" => /\ statuses' = Append(statuses, cur.id)
                              /\ last'.st = "Stopped"
           /\ pc' # "recv" => resp' = resp

C7_IdleStop == [][C7_Step]_vars

\* C7 witness: the second of two Stops in a row, at its last step, with the
\* controller Idle and no session ever opened
C7_Witness ==
    /\ pc = "stop_clear"
    /\ Idle
    /\ cur.op = "Stop" /\ cur.id = 2
    /\ statuses = <<1>>
    /\ last.st = "Stopped"
    /\ sess = <<>>
    /\ current_device # NoDev

\* C8: Stop drops the stream before it finalizes the writer and finalizes the
\* writer before it sends Stopped, after which the controller is Idle; and a
\* finalized file stays finalized and gets no further sample, whatever is
\* processed later.
C8_Dropped ==
    \A s \in Sessions : sess[s].writer = "finalized" => sess[s].stream = "dropped"

C8_Step ==
    /\ (statuses' # statuses /\ last'.st = "Stopped")
          => /\ Idle'
             /\ local # None => /\ sess[local].writer = "finalized"
                                /\ sess[local].stream = "dropped"
    /\ \A s \in Sessions :
          /\ sess[s].writer = "finalized"
                => /\ sess'[s].writer = "finalized"
                   /\ sess'[s].samples = sess[s].samples
          /\ (sess[s].writer # "finalized" /\ sess'[s].writer = "finalized")
                => /\ pc = "stop_finalize"
                   /\ sess[s].stream = "dropped"
                   /\ current_stream = None

C8_StopOrder == [](C8_Dropped) /\ [][C8_Step]_vars

\* C8 witness: a file with samples, finalized by a Stop, after which a Pause
\* or a Resume was processed
C8_Witness ==
    \E s \in Sessions :
        /\ sess[s].writer = "finalized"
        /\ sess[s].samples > 0
        /\ last.st \in {"Paused", "Resumed"}


\* ------------------------------------------------------------ start, retry
StartFailures == StartOutcomes \ {"ok"}

\* C11: a Start makes a first attempt; only when that fails it refreshes the
\* devices, once, and only after a successful refresh it makes one more
\* attempt and no third; the device selection changes during a Start at the
\* refresh only; the Start answers Started exactly when an attempt of its own
\* created the session it installs, and one Error otherwise, and the Error
\* of a failed retry carries the reason of the first failure and of the retry.
C11_Step ==
    cur.op = "Start" =>
        /\ (pc' # pc /\ pc' = "start_refresh")
              => pc = "start1" /\ e1' \in StartFailures
        /\ (pc' # pc /\ pc' = "start2") => pc = "start_refresh" /\ e1' = e1
        /\ (pc' # pc /\ pc = "start2") => pc' \in {"start_set_stream", "recv"}
        /\ devsel' # devsel => pc = "start_refresh"
        /\ Len(sess') # Len(sess)
              => /\ pc \in {"start1", "start2"}
                 /\ pc = "start1" <=> e1 = "none"
                 /\ pc' = "start_set_stream"
                 /\ local' = Len(sess')
        /\ statuses' # statuses
              => /\ statuses' = Append(statuses, cur.id)
                 /\ last'.st \in {"Started", "Error"}
                 /\ last'.st = "Started"
                       <=> /\ local # None
                           /\ current_stream' = local
                           /\ current_writer' = local
                           /\ current_state' = local
                 /\ last'.st = "Error" => local = None /\ ctl' = ctl
                 /\ (pc = "start2" /\ last'.st = "Error")
                       => /\ Len(last'.info) = 3
                          /\ last'.info[2] = e1
                          /\ e1 \in StartFailures
                          /\ last'.info[3] \in StartFailures

C11_RetryOnce == [][C11_Step]_vars

\* C11 witness: a Start answered with the Error of a failed retry, the first
\* attempt having failed on the device and the retry on the file
C11_Witness ==
    /\ pc = "recv"
    /\ statuses = <<1>>
    /\ last = [st |-> "Error", info |-> <<"start_failed", "device", "file">>]
    /\ sess = <<>>


\* C12: a Start whose two attempts both fail at creating the file answers
\* Error and leaves the controller Idle: no stream, no writer, no state.
C12_Step ==
    (/\ cur.op = "Start"
     /\ statuses' # statuses
     /\ last'.info = <<"start_failed", "file", "file">>)
        => last'.st = "Error" /\ Idle'

C12_FileFailureIdle == [][C12_Step]_vars


\* ------------------------------------------------------- device selection
\* C13: for every answer of the platform to a refresh made in the current
\* state: if the selected device is not in the enumeration and the platform
\* names a default, the refresh succeeds with the default as the selection
\* and the enumeration as the registry, and it fails only if the enumeration
\* failed or there is no default; and RefreshDevices answers DevicesRefreshed
\* exactly when its refresh succeeded, Error otherwise, touching no session.
C13_Function ==
    /\ current_device_name \in {current_device, NoName}
    /\ \A en \in Enumerations :
          LET r == refresh_available_devices(en, available_devices,
                                             current_device, current_device_name)
          IN  /\ (/\ en.ok
                  /\ en.def # NoDev
                  /\ current_device # NoDev
                  /\ current_device \notin en.devs)
                    => /\ r.ok
                       /\ r.dev = en.def
                       /\ r.avail = en.devs
                       /\ r.name \in {en.def, NoName}
              /\ ~r.ok => (~en.ok \/ en.def = NoDev)

C13_Step ==
    (cur.op = "Refresh" /\ statuses' # statuses)
        => /\ ctl' = ctl
           /\ \E en \in Enumerations :
                LET r == refresh_available_devices(en, available_devices,
                                                   current_device, current_device_name)
                IN  /\ devsel' = <<r.avail, r.dev, r.name>>
                    /\ last'.st = IF r.ok THEN "DevicesRefreshed" ELSE "Error"
                    /\ (~en.ok \/ en.def = NoDev \/ current_device \in en.devs
                           \/ current_device = NoDev)
                         \/ (last'.st = "DevicesRefreshed" /\ current_device' = en.def)

C13_Reselect == [](C13_Function) /\ [][C13_Step]_vars

\* C13 witness: a recording was started on mic, the selection of that moment;
\* the next command, a RefreshDevices, found only usb, the default, and
\* answered DevicesRefreshed with usb selected
C13_Witness ==
    /\ pc = "recv"
    /\ statuses = <<1, 2>>
    /\ last.st = "DevicesRefreshed"
    /\ Len(sess) = 1 /\ sess[1].dev = "mic" /\ current_stream = 1
    /\ available_devices = {"usb"}
    /\ current_device = "usb"
    /\ current_device_name = "usb"


\* C14: a SwitchDevice whose name is in the registry makes that device the
\* selection and answers DeviceSwitched with its name, and leaves the
\* registry, the controller's stream, writer and state and every session as
\* they are; no session ever changes its device; the selection stays as it is
\* until the next command is taken; and the first attempt of a Start opens its
\* stream on the device selected at that moment.
C14_Step ==
    /\ (cur.op = "Switch" /\ statuses' # statuses /\ cur.dev \in available_devices)
          => /\ current_device' = cur.dev
             /\ current_device_name' = cur.dev
             /\ last' = [st |-> "DeviceSwitched", info |-> <<cur.dev>>]
             /\ available_devices' = available_devices
             /\ ctl' = ctl
             /\ sess' = sess
    /\ \A s \in Sessions : sess'[s].dev = sess[s].dev
    /\ pc = "recv" => devsel' = devsel
    /\ (pc = "start1" /\ Len(sess') # Len(sess))
          => /\ sess'[Len(sess')].dev = current_device
             /\ sess'[Len(sess')].stream = "live"
             /\ devsel' = devsel

C14_SwitchForNextStart == [][C14_Step]_vars

\* C14 witness: a recording runs on mic; the next command switched the
\* selection to usb, and the stream of the recording is still the one on mic
C14_Witness ==
    /\ pc = "recv"
    /\ statuses = <<1, 2>>
    /\ last = [st |-> "DeviceSwitched", info |-> <<"usb">>]
    /\ current_device = "usb"
    /\ current_stream = 1 /\ current_writer = 1 /\ current_state = 1
    /\ sess[1].dev = "mic"
    /\ sess[1].stream = "live"
    /\ sess[1].writer = "open"


\* C15: a SwitchDevice whose name is not in the registry answers Error and
\* changes nothing: selected device, its name, the registry, the controller's
\* stream, writer and state and every session are as before.
C15_Step ==
    (cur.op = "Switch" /\ statuses' # statuses /\ cur.dev \notin available_devices)
        => /\ last' = [st |-> "Error", info |-> <<"not_found", cur.dev>>]
           /\ devsel' = devsel
           /\ ctl' = ctl
           /\ sess' = sess

C15_UnknownDevice == [][C15_Step]_vars

\* C15 witness: with a recording running on mic and usb not in the registry,
\* a SwitchDevice to usb was answered with Error, and mic is still selected
C15_Witness ==
    /\ pc = "recv"
    /\ last = [st |-> "Error", info |-> <<"not_found", "usb">>]
    /\ "usb" \notin available_devices
    /\ current_device = "mic"
    /\ current_device_name = "mic"
    /\ current_stream = 1
    /\ sess[1].stream = "live"


\* ------------------------------------------------------ the sample pipeline
\* The header and the conversion of one frame, as functions of the device's
\* config, the caller's hints and the frame. A frame is a sequence of runs
\* [v, n]: n channels in a row that carry the value v. An f32 value is a
\* whole number of steps of 1/Unit, so Unit is 1.0.
Unit == 4
MaxChannels == 65535
I16Max == 32767
I16Min == -32768
U16Bias == 32768
I32Max == 2147483647
I32Min == -I32Max - 1

SampleFormats == {"f32", "i16", "u16"}
SampleRates == {44100, 48000}
RequestedRates == {16000, 44100}
RequestedChannels == {1, 2}

\* channel layouts: mono, stereo, three channels, and as many as a u16 counts
Shapes(fmt) ==
    IF fmt = "f32" THEN {<<1>>, <<1, 1>>, <<2, 1>>}
    ELSE {<<1>>, <<1, 1>>, <<2, 1>>, <<MaxChannels>>, <<MaxChannels - 1, 1>>}

Values(fmt) ==
    CASE fmt = "f32" -> {-(Unit + Unit \div 2), -Unit, -1, 0, 1, Unit,
                         Unit + Unit \div 2}
      [] fmt = "i16" -> {I16Min, -1, 0, 1, I16Max}
      [] fmt = "u16" -> {0, U16Bias - 1, U16Bias, 2 * U16Bias - 1}

RECURSIVE Channels(_)
Channels(frame) ==
    IF frame = <<>> THEN 0 ELSE Head(frame).n + Channels(Tail(frame))

Frames(fmt) ==
    {[i \in 1..Len(sh) |-> [v |-> f[i], n |-> sh[i]]] :
        <<sh, f>> \in UNION {{sh} \X [1..Len(sh) -> Values(fmt)] : sh \in Shapes(fmt)}}

\* integer division of Rust: the quotient is truncated toward zero
TruncDiv(a, b) == IF a >= 0 THEN a \div b ELSE -((-a) \div b)

\* `x as i16` of an i32: the low 16 bits
CastI16(x) == ((x - I16Min) % (2 * U16Bias)) + I16Min

\* `f as i16` of a float num/den: truncated, saturating at the ends of i16
SaturateI16(num, den) ==
    LET t == TruncDiv(num, den)
    IN  IF t > I16Max THEN I16Max ELSE IF t < I16Min THEN I16Min ELSE t

\* lines 323, 332-333: (x.clamp(-1.0, 1.0) * i16::MAX as f32) as i16
\* for the float x = num/den
F32ToI16(num, den) ==
    LET c == IF num > den THEN den ELSE IF num < -den THEN -den ELSE num
    IN  SaturateI16(c * I16Max, den)

\* audio/mod.rs line 78: (sample * i16::MAX as f32) as i16
LegacyF32ToI16(num, den) == SaturateI16(num * I16Max, den)

\* `sum += p` on an i32: the sum, and whether it left the range of i32 (the
\* low 32 bits stay in a release build)
AddI32(acc, p) ==
    IF p >= 0 /\ acc.sum > I32Max - p
    THEN [sum |-> (acc.sum - I32Max - 1) + (p - I32Max - 1), overflow |-> TRUE]
    ELSE IF p < 0 /\ acc.sum < I32Min - p
    THEN [sum |-> (acc.sum + I32Max + 1) + (p + I32Max + 1), overflow |-> TRUE]
    ELSE [sum |-> acc.sum + p, overflow |-> acc.overflow]

\* lines 366-367, 401-404: the loop over the channels of a frame; the
\* channels of a run move the sum one way, so it is tested at the run's end
RECURSIVE SumI32(_, _, _)
SumI32(frame, bias, acc) ==
    IF frame = <<>> THEN acc
    ELSE SumI32(Tail(frame), bias,
                AddI32(acc, (Head(frame).v - bias) * Head(frame).n))

\* lines 330-331: the f32 sum, taken as exact
RECURSIVE SumF32(_)
SumF32(frame) ==
    IF frame = <<>> THEN 0 ELSE Head(frame).v * Head(frame).n + SumF32(Tail(frame))

\* a downmix that keeps the first channel
FirstChannel(fmt, frame, in_ch) ==
    [sample |-> CASE fmt = "f32" -> F32ToI16(frame[1].v, Unit)
                  [] fmt = "i16" -> frame[1].v
                  [] fmt = "u16" -> CastI16(frame[1].v - U16Bias),
     overflow |-> FALSE]

\* lines 326-336, 364-372, 399-409: one mono sample per frame
Downmix(fmt, frame, in_ch) ==
    CASE fmt = "f32" ->
            [sample |-> F32ToI16(SumF32(frame), Unit * in_ch), overflow |-> FALSE]
      [] fmt = "i16" ->
            LET a == SumI32(frame, 0, [sum |-> 0, overflow |-> FALSE])
            IN  [sample |-> CastI16(TruncDiv(a.sum, in_ch)), overflow |-> a.overflow]
      [] fmt = "u16" ->
            LET a == SumI32(frame, U16Bias, [sum |-> 0, overflow |-> FALSE])
            IN  [sample |-> CastI16(TruncDiv(a.sum, in_ch)), overflow |-> a.overflow]

\* a conversion that reinterprets the bits of a u16 as an i16
ConvertMonoReinterpret(fmt, v) ==
    CASE fmt = "f32" -> F32ToI16(v, Unit)
      [] fmt = "i16" -> v
      [] fmt = "u16" -> CastI16(v)

\* lines 321-325, 360-363, 395-398: mono input, sample by sample
ConvertMono(fmt, v) ==
    CASE fmt = "f32" -> F32ToI16(v, Unit)
      [] fmt = "i16" -> v
      [] fmt = "u16" -> CastI16(v - U16Bias)

\* the body of the closure for one frame
WriteSamples(fmt, frame, in_ch) ==
    IF in_ch <= 1
    THEN [sample |-> ConvertMono(fmt, frame[1].v), overflow |-> FALSE]
    ELSE Downmix(fmt, frame, in_ch)

\* a header that follows the caller's hints
WavSpecFromHints(cfg, requested_sample_rate, requested_channels) ==
    [channels |-> requested_channels, sample_rate |-> requested_sample_rate,
     bits_per_sample |-> 16, sample_format |-> "Int"]

\* lines 268-290: the WavSpec of the output file
WavSpecOf(cfg, requested_sample_rate, requested_channels) ==
    [channels |-> 1, sample_rate |-> cfg.sample_rate,
     bits_per_sample |-> 16, sample_format |-> "Int"]

InitPcm ==
    /\ InitEngine
    /\ NoSessions
    /\ NoExtra
    /\ \E fmt \in SampleFormats, rate \in SampleRates :
         \E frame \in Frames(fmt) :
            /\ config = [sample_rate |-> rate, channels |-> Channels(frame),
                         sample_format |-> fmt]
            /\ data = frame
    /\ requested \in [sample_rate : RequestedRates, channels : RequestedChannels]
    /\ wav_spec = <<>>
    /\ written = <<>>
    /\ legacy_written = <<>>

\* start_recording_stream up to the creation of the writer
WriteHeader ==
    /\ wav_spec = <<>>
    /\ wav_spec' = <<WavSpecOf(config, requested.sample_rate, requested.channels)>>
    /\ UNCHANGED <<engine, handlers, timers, saving, extra, config, requested, data,
                   written, legacy_written>>

\* the closure of the config's sample format is called with the frame
WriteFrame ==
    /\ written = <<>>
    /\ written' = <<WriteSamples(config.sample_format, data, config.channels)>>
    /\ UNCHANGED <<engine, handlers, timers, saving, extra, config, requested, data,
                   wav_spec, legacy_written>>

\* audio/mod.rs lines 77-80: AudioRecorder's closure takes f32 only and
\* writes every sample of the buffer
LegacyWriteFrame ==
    /\ config.sample_format = "f32"
    /\ legacy_written = <<>>
    /\ legacy_written' = <<[i \in 1..Len(data) |-> LegacyF32ToI16(data[i].v, Unit)]>>
    /\ UNCHANGED <<engine, handlers, timers, saving, extra, config, requested, data,
                   wav_spec, written>>

PcmNext == WriteHeader \/ WriteFrame \/ LegacyWriteFrame

SpecPcm == InitPcm /\ [][PcmNext]_vars


\* C16: the header of the output file declares one channel, 16 bits per
\* sample, integer samples and the sample rate of the device's config,
\* whatever sample rate and channel count the caller asked for and however
\* many channels the device delivers.
C16_Header ==
    wav_spec # <<>> =>
        /\ wav_spec[1].channels = 1
        /\ wav_spec[1].bits_per_sample = 16
        /\ wav_spec[1].sample_format = "Int"
        /\ wav_spec[1].sample_rate = config.sample_rate

\* C16 witness: a stereo device at 48000 Hz, a caller asking for 44100 Hz
\* and two channels, and the header written: mono at 48000 Hz
C16_Witness ==
    /\ wav_spec # <<>>
    /\ config.sample_rate = 48000
    /\ config.channels = 2
    /\ requested = [sample_rate |-> 44100, channels |-> 2]
    /\ wav_spec[1].sample_rate = 48000
    /\ wav_spec[1].channels = 1


\* the sum of the channels of a frame, each less the bias, as a number
RECURSIVE Total(_, _)
Total(frame, bias) ==
    IF frame = <<>> THEN 0
    ELSE (Head(frame).v - bias) * Head(frame).n + Total(Tail(frame), bias)

MinValue(frame) == CHOOSE v \in {frame[i].v : i \in 1..Len(frame)} :
                       \A i \in 1..Len(frame) : v <= frame[i].v

MaxValue(frame) == CHOOSE v \in {frame[i].v : i \in 1..Len(frame)} :
                       \A i \in 1..Len(frame) : v >= frame[i].v

\* C17: for input of more than one channel, in each sample format, the mono
\* sample written for a frame is the mean of the frame's channels: for i16
\* and u16 (less its bias) the sum of the channels divided by their number,
\* truncated toward zero; for f32 the sum divided by the number, clamped and
\* scaled; the sum never leaves the range of its i32 accumulator, for up to
\* 65535 channels; the sample lies between what the smallest and the largest
\* channel alone would give; and left 1.0, right -1.0 gives 0.
C17_Mean ==
    (written # <<>> /\ config.channels > 1) =>
        LET w == written[1]
            fmt == config.sample_format
            ch == config.channels
        IN  /\ ~w.overflow
            /\ fmt = "i16" => w.sample = TruncDiv(Total(data, 0), ch)
            /\ fmt = "u16" => w.sample = TruncDiv(Total(data, U16Bias), ch)
            /\ fmt = "f32" => w.sample = F32ToI16(Total(data, 0), Unit * ch)
            /\ ConvertMono(fmt, MinValue(data)) <= w.sample
            /\ w.sample <= ConvertMono(fmt, MaxValue(data))
            /\ (fmt = "f32" /\ data = <<[v |-> Unit, n |-> 1], [v |-> -Unit, n |-> 1]>>)
                  => w.sample = 0

\* C17 witness: the f32 stereo frame left 1.0, right -1.0 was written as 0
C17_Witness ==
    /\ config.sample_format = "f32"
    /\ config.channels = 2
    /\ data = <<[v |-> Unit, n |-> 1], [v |-> -Unit, n |-> 1]>>
    /\ written # <<>>
    /\ written[1].sample = 0


\* what clamping to [-1.0, 1.0], scaling by 32767 and truncating gives
ClampedScaled(v) ==
    IF v > Unit THEN I16Max
    ELSE IF v < -Unit THEN -I16Max
    ELSE TruncDiv(v * I16Max, Unit)

\* C18: every f32 sample a recording callback writes is the input clamped
\* to [-1.0, 1.0], scaled by 32767 and truncated: 1.5 gives 32767, anything
\* below -1.0 gives -32767; for the closure of start_recording_stream and
\* for the closure of AudioRecorder alike.
C18_Clamped ==
    /\ (written # <<>> /\ config.sample_format = "f32" /\ config.channels = 1)
          => written[1].sample = ClampedScaled(data[1].v)
    /\ legacy_written # <<>>
          => \A i \in 1..Len(data) : legacy_written[1][i] = ClampedScaled(data[i].v)


\* ------------------------------------------------------------- the timer
\* commands/timer.rs: each handler locks current_timer once, so each is one
\* step. Time is counted in seconds and stops at MaxTime.
MaxTime == 4

\* a second passes
Tick ==
    /\ now < MaxTime
    /\ now' = now + 1
    /\ run_secs' = IF current_timer # <<>> /\ ~current_timer[1].is_paused
                   THEN run_secs + 1 ELSE run_secs
    /\ UNCHANGED <<engine, handlers, pcm, saving, extra, current_timer, timer_state>>

\* timer.rs lines 6-45: a previous session is ended and replaced
start_timer_session ==
    /\ current_timer' = <<[start_time |-> now, is_paused |-> FALSE,
                           pause_duration |-> 0]>>
    /\ timer_state' = <<[at |-> now, is_paused |-> FALSE, elapsed_time |-> 0]>>
    /\ run_secs' = 0
    /\ UNCHANGED <<engine, handlers, pcm, saving, extra, now>>

\* timer.rs lines 47-58
stop_timer_session ==
    /\ current_timer # <<>>
    /\ current_timer' = <<>>
    /\ UNCHANGED <<engine, handlers, pcm, saving, extra, now, timer_state, run_secs>>

\* timer.rs lines 60-70
pause_timer_session ==
    /\ current_timer # <<>>
    /\ current_timer' = <<[current_timer[1] EXCEPT !.is_paused = TRUE]>>
    /\ UNCHANGED <<engine, handlers, pcm, saving, extra, now, timer_state, run_secs>>

\* timer.rs lines 72-82
resume_timer_session ==
    /\ current_timer # <<>>
    /\ current_timer' = <<[current_timer[1] EXCEPT !.is_paused = FALSE]>>
    /\ UNCHANGED <<engine, handlers, pcm, saving, extra, now, timer_state, run_secs>>

\* timer.rs lines 88-94
elapsed_time(timer_session, t) ==
    IF timer_session.is_paused
    THEN timer_session.pause_duration
    ELSE (t - timer_session.start_time) - timer_session.pause_duration

\* timer.rs lines 84-112
get_timer_state ==
    /\ timer_state' =
          IF current_timer # <<>>
          THEN <<[at |-> now, is_paused |-> current_timer[1].is_paused,
                  elapsed_time |-> elapsed_time(current_timer[1], now)]>>
          ELSE <<[at |-> now, is_paused |-> FALSE, elapsed_time |-> 0]>>
    /\ UNCHANGED <<engine, handlers, pcm, saving, extra, now, current_timer, run_secs>>

TimerNext ==
    \/ Tick
    \/ start_timer_session
    \/ stop_timer_session
    \/ pause_timer_session
    \/ resume_timer_session
    \/ get_timer_state

SpecTimer == Init /\ [][TimerNext]_vars

\* C19: the elapsed time a running timer reports leaves out the time it
\* was paused: a TimerState returned just now for an unpaused session
\* carries the seconds the session has run unpaused since its start.
C19_PausedTimeExcluded ==
    (/\ current_timer # <<>>
     /\ timer_state # <<>>
     /\ timer_state[1].at = now
     /\ ~timer_state[1].is_paused
     /\ ~current_timer[1].is_paused)
        => timer_state[1].elapsed_time = run_secs


\* ------------------------------------------- stopping and saving a recording
\* start_recording, lines 437-479, with the capture thread running: the
\* session replaces the one in AppState and StartRecording is sent, all under
\* the lock of recording_state, which stop_recording holds from its first
\* line to its last. The file is named after the command that creates it.
start_recording ==
    /\ stopping = <<>>
    /\ nEnq < MaxRecCmds
    /\ pc # "exited"
    /\ recording_session' = <<[file |-> nEnq + 1, start_time |-> now,
                               is_paused |-> FALSE]>>
    /\ nEnq' = nEnq + 1
    /\ queue' = Append(queue, [id |-> nEnq + 1, op |-> "Start", dev |-> NoName])
    /\ UNCHANGED <<nLost, thr, ctl, devsel, sess, resp, nBufs, handlers, pcm, extra,
                   timers, stopping, saved>>

\* stop_recording, lines 483-492: the session is taken and StopRecording sent
stop_recording_send ==
    /\ stopping = <<>>
    /\ recording_session # <<>>
    /\ nEnq < MaxRecCmds
    /\ pc # "exited"
    /\ recording_session' = <<>>
    /\ stopping' = <<[file |-> recording_session[1].file, stop |-> nEnq + 1]>>
    /\ nEnq' = nEnq + 1
    /\ queue' = Append(queue, [id |-> nEnq + 1, op |-> "Stop", dev |-> NoName])
    /\ UNCHANGED <<nLost, thr, ctl, devsel, sess, resp, nBufs, handlers, pcm, extra,
                   timers, saved>>

\* stop_recording, lines 494-510: the duration is taken from the clock and the
\* row is saved; nothing is received from the capture thread in between
stop_recording_save ==
    /\ stopping # <<>>
    /\ saved' = Append(saved, stopping[1])
    /\ stopping' = <<>>
    /\ UNCHANGED <<engine, handlers, pcm, timers, extra, recording_session>>

\* the capture thread with the commands these two handlers send
StartStopStep(platform, outcomes) ==
    \/ ThreadInit(platform) \/ ThreadRecv
    \/ StartFirst(outcomes) \/ StartRefresh(platform) \/ StartRetry(outcomes)
    \/ StartSetStream \/ StartSetWriter \/ StartSetState
    \/ StopDropStream \/ StopTakeWriter \/ StopLockWriter \/ StopFinalize
    \/ StopClear

StopNext ==
    \/ StartStopStep(StablePlatform, StartOutcomes)
    \/ CallbackStep(MaxRecBufs)
    \/ start_recording
    \/ stop_recording_send
    \/ stop_recording_save

SpecStop == Init /\ [][StopNext]_vars

\* C20: stop_recording saves the row of a recording only after its Stop has
\* been processed: when the row is saved the capture thread has answered the
\* StopRecording that stop_recording sent, and no file is open.
C20_Step ==
    saved' # saved =>
        /\ \E i \in 1..Len(statuses) : statuses[i] = stopping[1].stop
        /\ \A s \in Sessions : sess[s].writer # "open"

C20_SavedAfterStop == [][C20_Step]_vars


\* ------------------------------------------------ the loop over one buffer
\* The body of the three closures once both locks are held: what one
\* invocation does with a buffer of data_len samples from a device of
\* config.channels channels.
MaxBufLen == 5

\* channel counts of a config: none, mono, stereo, three channels
ChannelCounts == {0, 1, 2, 3}

\* a loop that also takes the incomplete frame at the end of the buffer
FrameStarted(idx, in_ch, length) == idx < length

\* lines 329, 366, 402: while i + in_ch <= data.len()
FrameComplete(idx, in_ch, length) == idx + in_ch <= length

\* the closure is called with a buffer, the writer created (lines 285-293)
InitLoop ==
    /\ InitEngine
    /\ NoSessions
    /\ config \in [sample_rate : SampleRates, channels : ChannelCounts,
                   sample_format : SampleFormats]
    /\ requested = [sample_rate |-> 44100, channels |-> 1]
    /\ data = <<>>
    /\ wav_spec = <<WavSpecOf(config, requested.sample_rate, requested.channels)>>
    /\ written = <<>>
    /\ legacy_written = <<>>
    /\ data_len \in 0..MaxBufLen
    /\ pos = 0
    /\ n_written = 0
    /\ hret = [c \in Callers |-> "none"]
    /\ poisoned = FALSE

\* lines 321-325, 360-363, 395-398: for &sample in data, one write each
WriteMonoSample ==
    /\ config.channels <= 1
    /\ pos < data_len
    /\ pos' = pos + 1
    /\ n_written' = n_written + 1
    /\ UNCHANGED <<engine, handlers, pcm, timers, saving, calls, data_len>>

\* lines 328-336, 365-372, 401-410: one write for the frame at i, i += in_ch
WriteFrameSample ==
    /\ config.channels > 1
    /\ FrameComplete(pos, config.channels, data_len)
    /\ pos' = pos + config.channels
    /\ n_written' = n_written + 1
    /\ UNCHANGED <<engine, handlers, pcm, timers, saving, calls, data_len>>

LoopNext == WriteMonoSample \/ WriteFrameSample

SpecLoop == InitLoop /\ [][LoopNext]_vars

\* C21: an invocation that writes a buffer of L samples from c channels has
\* written, when its loop ends, L samples if c <= 1 and floor(L / c) samples
\* if c > 1, leaving less than one frame of the buffer unread; at every
\* moment it has written one sample for each frame it has read, and the
\* header declares one channel at the sample rate of the device's config.
C21_SampleCount ==
    LET c == config.channels
    IN  /\ n_written * (IF c <= 1 THEN 1 ELSE c) = pos
        /\ pos <= data_len
        /\ wav_spec[1].channels = 1
        /\ wav_spec[1].sample_rate = config.sample_rate
        /\ ~ENABLED LoopNext
              => /\ n_written = SamplesPerBuffer(data_len, c)
                 /\ c <= 1 => n_written = data_len
                 /\ c > 1 => /\ n_written = data_len \div c
                             /\ data_len - pos < c

\* C21 witness: a buffer of five samples from a stereo device, the loop at
\* its end: two samples written, the fifth sample of the buffer not read
C21_Witness ==
    /\ config.channels = 2
    /\ data_len = 5
    /\ ~ENABLED LoopNext
    /\ n_written = 2
    /\ pos = 4


\* ------------------------------------------------------- pause and resume
\* C22: a Pause processed with a session active sets the session's state to
\* Paused, a Resume sets it to Recording, and all the rest stays as it is at
\* every step of either: the controller's stream, writer and state, the
\* device selection and registry, and every session's stream, writer, file
\* and device; and the state of a session changes at these two steps only,
\* so never in the callback.
C22_Step ==
    /\ (pc \in {"pause_lock", "pause_set", "resume_lock", "resume_set"} /\ pc' # pc)
          => /\ ctl' = ctl
             /\ devsel' = devsel
             /\ \A s \in Sessions :
                   /\ sess'[s].stream = sess[s].stream
                   /\ sess'[s].writer = sess[s].writer
                   /\ sess'[s].samples = sess[s].samples
                   /\ sess'[s].dev = sess[s].dev
                   /\ s # current_state => sess'[s] = sess[s]
    /\ (pc = "pause_set" /\ pc' # pc)
          => sess'[current_state].st = "Paused" /\ last'.st = "Paused"
    /\ (pc = "resume_set" /\ pc' # pc)
          => sess'[current_state].st = "Recording" /\ last'.st = "Resumed"
    /\ \A s \in Sessions :
          sess'[s].st # sess[s].st
              => /\ pc \in {"pause_set", "resume_set"}
                 /\ pc' = "recv"
                 /\ s = current_state
                 /\ sess'[s].cb = sess[s].cb

C22_PauseResumeOnlyState == [][C22_Step]_vars

\* C22 witness: a session paused and resumed, its stream still playing and
\* its writer still open, with a buffer delivered while it was paused
C22_Witness ==
    /\ pc = "recv"
    /\ last.st = "Resumed"
    /\ current_stream = 1 /\ current_writer = 1 /\ current_state = 1
    /\ sess[1].phase = 2
    /\ sess[1].st = "Recording"
    /\ sess[1].stream = "live"
    /\ sess[1].writer = "open"
    /\ nBufs > 0
    /\ sess[1].samples = 0


\* ------------------------------------------- the selection as a name lookup
\* C23: when a RefreshDevices has just answered DevicesRefreshed, the current
\* device name is a key of the registry and the device registered under that
\* name is the selected device.
C23_ValidLookup ==
    (pc = "recv" /\ last.st = "DevicesRefreshed")
        => /\ current_device_name \in available_devices
           /\ current_device = current_device_name


\* ------------------------------------------------------- unsigned samples
\* C24: a u16 sample x of a mono input is written as x - 32768: for the frame
\* just written and for every x in 0..65535 the result is x - 32768, it lies
\* in -32768..32767, and a larger x gives a larger result.
C24_Unsigned ==
    (written # <<>> /\ config.sample_format = "u16" /\ config.channels = 1)
        => /\ written[1].sample = data[1].v - U16Bias
           /\ \A x \in 0..(2 * U16Bias - 1) :
                 /\ ConvertMono("u16", x) = x - U16Bias
                 /\ ConvertMono("u16", x) >= I16Min
                 /\ ConvertMono("u16", x) <= I16Max
           /\ \A x \in 0..(2 * U16Bias - 2) :
                 ConvertMono("u16", x) < ConvertMono("u16", x + 1)

\* C24 witness: the largest u16 sample of a mono input, written as 32767
C24_Witness ==
    /\ written # <<>>
    /\ config.sample_format = "u16"
    /\ config.channels = 1
    /\ data[1].v = 2 * U16Bias - 1
    /\ written[1].sample = I16Max


\* ------------------------------------------------ the recording handlers
\* The five handlers that lock AppState.recording_state, each on a runtime
\* worker of its own. start_recording and stop_recording are the steps above
\* (stop_recording holds the mutex while `stopping` is set); the mutexes of
\* audio_thread_sender and db are taken and released within one step by every
\* handler that takes them, so their holders are not recorded.
RecordingStateFree == recording_lock = None /\ stopping = <<>>

Returned(c, k, value) ==
    /\ hkind' = [hkind EXCEPT ![c] = k]
    /\ hret' = [hret EXCEPT ![c] = value]

\* a stop_recording that sends StopRecording before it looks for the session
stop_recording_none_sends(c) ==
    /\ hpc[c] = "idle"
    /\ RecordingStateFree /\ ~poisoned
    /\ recording_session = <<>>
    /\ nEnq < MaxRecCmds
    /\ nEnq' = nEnq + 1
    /\ queue' = Append(queue, [id |-> nEnq + 1, op |-> "Stop", dev |-> NoName])
    /\ Returned(c, "stop_recording", "Err(No active recording)")
    /\ UNCHANGED <<nLost, thr, ctl, devsel, sess, resp, nBufs, pcm, timers, saving,
                   loop, poisoned, hpc, hsender, hnew, audio_thread_sender,
                   recording_lock, nThreads, sentTo>>

\* lines 484-485: recording_state.take().ok_or("No active recording")?
stop_recording_none(c) ==
    /\ hpc[c] = "idle"
    /\ RecordingStateFree /\ ~poisoned
    /\ recording_session = <<>>
    /\ Returned(c, "stop_recording", "Err(No active recording)")
    /\ UNCHANGED <<engine, pcm, timers, saving, loop, poisoned, hpc, hsender, hnew,
                   audio_thread_sender, recording_lock, nThreads, sentTo>>

\* lines 515-517, 533-535 and 540-542, 558-560: the first lock() and the test;
\* the guard lives to the end of the function
pause_recording_lock(c, k) ==
    /\ hpc[c] = "idle"
    /\ RecordingStateFree /\ ~poisoned
    /\ IF recording_session # <<>>
       THEN /\ recording_lock' = c
            /\ hpc' = [hpc EXCEPT ![c] = "relock"]
            /\ Returned(c, k, "none")
       ELSE /\ Returned(c, k, "Err(No active recording)")
            /\ UNCHANGED <<recording_lock, hpc>>
    /\ UNCHANGED <<engine, pcm, timers, saving, loop, poisoned, hsender, hnew,
                   audio_thread_sender, nThreads, sentTo>>

\* lines 519, 544: lock() of the mutex the worker holds does not return; it
\* blocks for ever (no step) or it panics, and the unwinding drops the first
\* guard, which poisons the mutex
RelockPanics(c) ==
    /\ hpc[c] = "relock"
    /\ recording_lock = c
    /\ hpc' = [hpc EXCEPT ![c] = "panicked"]
    /\ recording_lock' = None
    /\ poisoned' = TRUE
    /\ UNCHANGED <<engine, pcm, timers, saving, loop, hret, hkind, hsender, hnew,
                   audio_thread_sender, nThreads, sentTo>>

\* lines 459, 484, 515, 540, 565: lock().map_err(|e| e.to_string())? on a
\* poisoned mutex
LockPoisoned(c, k) ==
    /\ hpc[c] = "idle"
    /\ poisoned
    /\ Returned(c, k, "Err(poisoned)")
    /\ UNCHANGED <<engine, pcm, timers, saving, loop, poisoned, hpc, hsender, hnew,
                   audio_thread_sender, recording_lock, nThreads, sentTo>>

\* lines 563-586
get_recording_state(c) ==
    /\ hpc[c] = "idle"
    /\ RecordingStateFree /\ ~poisoned
    /\ Returned(c, "get_recording_state",
                IF recording_session = <<>> THEN "Ok(is_recording: false)"
                ELSE IF recording_session[1].is_paused
                     THEN "Ok(is_recording: true, is_paused: true)"
                     ELSE "Ok(is_recording: true, is_paused: false)")
    /\ UNCHANGED <<engine, pcm, timers, saving, loop, poisoned, hpc, hsender, hnew,
                   audio_thread_sender, recording_lock, nThreads, sentTo>>

RecordingHandlers == {"start_recording", "stop_recording", "pause_recording",
                      "resume_recording", "get_recording_state"}

CmdNext ==
    \/ start_recording /\ recording_lock = None /\ ~poisoned
    \/ stop_recording_send /\ recording_lock = None /\ ~poisoned
    \/ stop_recording_save
    \/ \E c \in Callers :
          \/ stop_recording_none(c)
          \/ \E k \in {"pause_recording", "resume_recording"} :
                pause_recording_lock(c, k)
          \/ RelockPanics(c)
          \/ \E k \in RecordingHandlers : LockPoisoned(c, k)
          \/ get_recording_state(c)

SpecCmd == Init /\ [][CmdNext]_vars

\* C25: no handler waits for a mutex it holds itself: a worker that stands at
\* a lock() of recording_state is not the holder of recording_state.
C25_NoSelfWait ==
    \A c \in Callers : hpc[c] = "relock" => recording_lock # c


\* ------------------------------------- the session record and the controller
\* C26: once the capture thread has processed every command sent, the session
\* record of the command layer and the controller agree: with a session
\* stored in recording_state the controller holds a stream, a state and an
\* open writer, and with none stored it is Idle.
C26_Agree ==
    (pc = "recv" /\ queue = <<>>)
        => /\ recording_session # <<>>
                 => /\ current_stream # None
                    /\ current_state # None
                    /\ current_writer # None
                    /\ sess[current_writer].writer = "open"
           /\ recording_session = <<>> => Idle


\* ------------------------------------------- the three fields of a session
\* C27: whenever the capture thread is between two commands, current_stream,
\* current_writer and current_state are all absent, or all present; when
\* present they belong to one session, whose stream is playing and whose
\* writer is open, not finalized and not discarded.
C27_AllOrNone ==
    pc = "recv"
        => \/ Idle
           \/ /\ current_stream # None
              /\ current_writer = current_stream
              /\ current_state = current_stream
              /\ sess[current_writer].writer = "open"
              /\ sess[current_stream].stream = "live"

\* C27 witness: a second recording is active after the first was stopped:
\* the three fields hold the second session, the first one's file is finalized
C27_Witness ==
    /\ pc = "recv"
    /\ last.st = "Started"
    /\ Len(sess) = 2
    /\ current_stream = 2 /\ current_writer = 2 /\ current_state = 2
    /\ sess[2].writer = "open"
    /\ sess[1].writer = "finalized"


\* ------------------------------------------------- stop without a session
\* C28: a stop_recording that finds no session stored returns the error
\* "No active recording" and changes nothing else: the channel, the rows
\* saved and recording_state, which stays empty, are as before; and a
\* StopRecording is sent, and a row saved, only for a session that was stored.
C28_Step ==
    /\ \A c \in Callers :
          (/\ <<hkind'[c], hret'[c]>> # <<hkind[c], hret[c]>>
           /\ hkind'[c] = "stop_recording"
           /\ hret'[c] = "Err(No active recording)")
              => /\ recording_session = <<>>
                 /\ recording_session' = <<>>
                 /\ chan' = chan
                 /\ saved' = saved
                 /\ stopping' = stopping
                 /\ recording_lock' = recording_lock
    /\ (Len(queue') > Len(queue) /\ queue'[Len(queue')].op = "Stop")
          => recording_session # <<>>
    /\ saved' # saved => stopping # <<>>

C28_StopWithoutSession == [][C28_Step]_vars

\* C28 witness: a recording was started, stopped and saved, and a second
\* stop_recording returned the error: one StopRecording sent, one row saved
C28_Witness ==
    /\ \E c \in Callers :
          hkind[c] = "stop_recording" /\ hret[c] = "Err(No active recording)"
    /\ recording_session = <<>>
    /\ Len(queue) = 2
    /\ queue[2].op = "Stop"
    /\ Len(saved) = 1
    /\ stopping = <<>>


\* ------------------------------------------------ switch_audio_device's Ok
\* C29: a SwitchDevice that switch_audio_device sent, returning Ok, has made
\* its device the selection once it is answered with the channel drained: the
\* selected device and its name are the one asked for.
C29_Step ==
    (cur.op = "Switch" /\ statuses' # statuses /\ queue' = <<>>)
        => /\ current_device' = cur.dev
           /\ current_device_name' = cur.dev

C29_SwitchedOnOk == [][C29_Step]_vars


\* --------------------------------------------------- the timer's readings
\* C30: within one timer session the elapsed_time of successive TimerStates
\* never decreases and is never negative, whatever pauses and resumes come
\* in between.
C30_Step ==
    (/\ current_timer # <<>>
     /\ current_timer' = current_timer
     /\ timer_state' # timer_state)
        => /\ timer_state'[1].elapsed_time >= timer_state[1].elapsed_time
           /\ timer_state'[1].elapsed_time >= 0

C30_ElapsedMonotone == [][C30_Step]_vars

=============================================================================
